---- MODULE Spec2Model ----
(***************************************************************************)
(* YosoConfig (src/transformers/models/yoso/configuration_yoso.py): the    *)
(* configuration record of the YOSO model.  The model follows the          *)
(* constructor statement by statement: argument binding, the call of the   *)
(* base initializer, and the nineteen attribute assignments.               *)
(***************************************************************************)
EXTENDS Integers, Sequences, FiniteSets, TLC

\* ------------------------------------------------------------------ bounds
\* How many YosoConfig instances exist (each constructed once).
MaxInst == 2
\* How many keyword arguments one call of the constructor passes at most.
MaxOverrides == 2

Inst == 1..MaxInst

\* ------------------------------------------------------------------ values
\* Python values, tagged by type: no two values of different types are equal.
IntV(n) == [int |-> n]
StrV(s) == [str |-> s]
BoolV(b) == [bool |-> b]
\* A float, written mant * 10^exp (0.1 is FloatV(1, -1)).
FloatV(m, e) == [mant |-> m, exp |-> e]
NoneV == [none |-> TRUE]
\* What reading an attribute that nothing defines gives (AttributeError).
NoAttr == [missing |-> TRUE]

\* ------------------------------------------------------- the class, as written
\* The class attribute of line 98.
model_type == StrV("yoso")

\* The class-level namespace of YosoConfig: shared by every instance.
YosoConfigClass == [model_type |-> model_type]

\* The constructor's named parameters and their defaults, lines 102-123.
Defaults ==
  [vocab_size |-> IntV(50265),
   hidden_size |-> IntV(768),
   num_hidden_layers |-> IntV(12),
   num_attention_heads |-> IntV(12),
   intermediate_size |-> IntV(3072),
   hidden_act |-> StrV("gelu"),
   hidden_dropout_prob |-> FloatV(1, -1),
   attention_probs_dropout_prob |-> FloatV(1, -1),
   max_position_embeddings |-> IntV(4096),
   type_vocab_size |-> IntV(1),
   initializer_range |-> FloatV(2, -2),
   layer_norm_eps |-> FloatV(1, -12),
   position_embedding_type |-> StrV("absolute"),
   use_expectation |-> BoolV(TRUE),
   hash_code_len |-> IntV(9),
   num_hash |-> IntV(64),
   conv_window |-> NoneV,
   use_fast_hash |-> BoolV(TRUE),
   lsh_backward |-> BoolV(TRUE),
   pad_token_id |-> IntV(1),
   bos_token_id |-> IntV(0),
   eos_token_id |-> IntV(2)]

ParamNames == DOMAIN Defaults

\* The three parameters handed to the base initializer by name, line 126.
TokenParams == {"pad_token_id", "bos_token_id", "eos_token_id"}

\* The fields the constructor assigns itself: the parameters of lines 102-120.
ConfigFields == ParamNames \ TokenParams

\* The defaults the class documentation states, lines 41-81, where it states one.
DocDefaults ==
  [vocab_size |-> IntV(50265),
   hidden_size |-> IntV(768),
   num_hidden_layers |-> IntV(12),
   num_attention_heads |-> IntV(12),
   intermediate_size |-> IntV(3072),
   hidden_act |-> StrV("gelu"),
   hidden_dropout_prob |-> FloatV(1, -1),
   attention_probs_dropout_prob |-> FloatV(1, -1),
   max_position_embeddings |-> IntV(512),
   type_vocab_size |-> IntV(2),
   initializer_range |-> FloatV(2, -2),
   layer_norm_eps |-> FloatV(1, -12),
   position_embedding_type |-> StrV("absolute"),
   use_expectation |-> BoolV(TRUE),
   hash_code_len |-> IntV(9),
   num_hash |-> IntV(64),
   use_fast_hash |-> BoolV(FALSE),
   lsh_backward |-> BoolV(TRUE)]

\* The assignment statements of lines 128-146, in order: self.<attr> = <param>.
Assignments ==
  << [attr |-> "vocab_size", param |-> "vocab_size"],
     [attr |-> "max_position_embeddings", param |-> "max_position_embeddings"],
     [attr |-> "hidden_size", param |-> "hidden_size"],
     [attr |-> "num_hidden_layers", param |-> "num_hidden_layers"],
     [attr |-> "num_attention_heads", param |-> "num_attention_heads"],
     [attr |-> "intermediate_size", param |-> "intermediate_size"],
     [attr |-> "hidden_act", param |-> "hidden_act"],
     [attr |-> "hidden_dropout_prob", param |-> "hidden_dropout_prob"],
     [attr |-> "attention_probs_dropout_prob", param |-> "attention_probs_dropout_prob"],
     [attr |-> "initializer_range", param |-> "initializer_range"],
     [attr |-> "type_vocab_size", param |-> "type_vocab_size"],
     [attr |-> "layer_norm_eps", param |-> "layer_norm_eps"],
     [attr |-> "position_embedding_type", param |-> "position_embedding_type"],
     [attr |-> "use_expectation", param |-> "use_expectation"],
     [attr |-> "hash_code_len", param |-> "hash_code_len"],
     [attr |-> "num_hash", param |-> "num_hash"],
     [attr |-> "conv_window", param |-> "conv_window"],
     [attr |-> "use_fast_hash", param |-> "use_fast_hash"],
     [attr |-> "lsh_backward", param |-> "lsh_backward"] >>

\* ------------------------------------------------------------------ inputs
\* Keyword arguments the signature does not name: they land in **kwargs.
ExtraKeys == {"num_labels", "output_attentions"}

Keys == ParamNames \cup ExtraKeys

\* The values a call may pass for each keyword: valid ones, and ones a
\* validating constructor would refuse (out of range, of another type).
Candidates ==
  [vocab_size |-> {IntV(30522), IntV(-1)},
   hidden_size |-> {IntV(512), IntV(770)},
   num_hidden_layers |-> {IntV(6), IntV(-1)},
   num_attention_heads |-> {IntV(8), IntV(0)},
   intermediate_size |-> {IntV(2048), StrV("big")},
   hidden_act |-> {StrV("relu"), StrV("swish")},
   hidden_dropout_prob |-> {FloatV(0, 0), FloatV(15, -1)},
   attention_probs_dropout_prob |-> {FloatV(2, -1), FloatV(-5, -1)},
   max_position_embeddings |-> {IntV(512), IntV(0)},
   type_vocab_size |-> {IntV(2), IntV(-3)},
   initializer_range |-> {FloatV(1, -1), FloatV(-2, -2)},
   layer_norm_eps |-> {FloatV(1, -5), IntV(0)},
   position_embedding_type |-> {StrV("relative_key"), StrV("rotary")},
   use_expectation |-> {BoolV(FALSE), NoneV},
   hash_code_len |-> {IntV(11), IntV(-9)},
   num_hash |-> {IntV(32), IntV(0)},
   conv_window |-> {IntV(3), NoneV},
   use_fast_hash |-> {BoolV(FALSE), BoolV(TRUE)},
   lsh_backward |-> {BoolV(FALSE), IntV(1)},
   pad_token_id |-> {IntV(0), NoneV},
   bos_token_id |-> {IntV(101), IntV(-1)},
   eos_token_id |-> {IntV(102), IntV(1)},
   num_labels |-> {IntV(3), IntV(-2)},
   output_attentions |-> {BoolV(TRUE), StrV("yes")}]

\* The empty keyword dictionary.
NoArgs == [k \in {} |-> NoneV]

\* d with d[name] set to v.
SetItem(d, name, v) ==
  [n \in DOMAIN d \cup {name} |-> IF n = name THEN v ELSE d[n]]

\* d restricted to the keys in S.
Restrict(d, S) == [n \in DOMAIN d \cap S |-> d[n]]

RECURSIVE SubsetsUpTo(_, _)
SubsetsUpTo(S, n) ==
  IF n = 0 THEN {{}}
  ELSE LET P == SubsetsUpTo(S, n - 1)
       IN P \cup {T \cup {k} : T \in P, k \in S}

RECURSIVE CallsOver(_)
CallsOver(S) ==
  IF S = {} THEN {NoArgs}
  ELSE LET k == CHOOSE x \in S : TRUE
       IN {SetItem(c, k, v) : c \in CallsOver(S \ {k}), v \in Candidates[k]}

\* Every call of the constructor with at most MaxOverrides keyword arguments.
Calls == UNION {CallsOver(S) : S \in SubsetsUpTo(Keys, MaxOverrides)}

\* The calls that run side by side in the concurrent specification.
ConcCalls ==
  { NoArgs,
    ("hidden_size" :> IntV(512)) @@ ("num_hash" :> IntV(32)),
    ("num_hidden_layers" :> IntV(-1)) @@ ("num_labels" :> IntV(3)),
    ("use_fast_hash" :> BoolV(FALSE)) @@ ("pad_token_id" :> IntV(0)) }

\* ------------------------------------------------------------------- state
VARIABLES
  pc,          \* where each instance's constructor stands
  stmt,        \* the next assignment statement of lines 128-146 to run
  call,        \* the keyword arguments the constructor was called with
  params,      \* the constructor's named parameters, bound
  kwargs,      \* the constructor's **kwargs
  attrs,       \* the instance's own attributes, as YosoConfig.__init__ set them
  superCalls,  \* the keyword dictionaries the base initializer was called with
  raised,      \* who raised out of the constructor: "none", "base" or "self"
  classAttrs   \* the class-level attributes of YosoConfig

vars == <<pc, stmt, call, params, kwargs, attrs, superCalls, raised, classAttrs>>

\* BindParams with the default of type_vocab_size taken from the class
\* documentation (2) instead of the signature.
BindParamsDocumented(c) ==
  [p \in ParamNames |->
     IF p \in DOMAIN c THEN c[p]
     ELSE IF p = "type_vocab_size" THEN IntV(2) ELSE Defaults[p]]

\* BindParams with intermediate_size derived from hidden_size (four times it)
\* when only hidden_size is passed.
BindParamsCoupled(c) ==
  [p \in ParamNames |->
     IF p \in DOMAIN c THEN c[p]
     ELSE IF p = "intermediate_size" /\ "hidden_size" \in DOMAIN c
               /\ "int" \in DOMAIN c["hidden_size"]
          THEN IntV(4 * c["hidden_size"].int)
          ELSE Defaults[p]]

\* Python's binding of a call to the signature of lines 100-125: a named
\* parameter takes the argument passed for it, or else its default.
BindParams(c) ==
  [p \in ParamNames |-> IF p \in DOMAIN c THEN c[p] ELSE Defaults[p]]

\* What is left of the call lands in **kwargs, line 124.
BindKwargs(c) == Restrict(c, DOMAIN c \ ParamNames)

\* SuperKeywords without **kwargs: only the three token ids are handed on.
SuperKeywordsDropped(p, kw) == [n \in TokenParams |-> p[n]]

\* The keyword dictionary of the call of line 126.
SuperKeywords(p, kw) ==
  [n \in TokenParams \cup DOMAIN kw |-> IF n \in TokenParams THEN p[n] ELSE kw[n]]

\* How a call of the base initializer ends: it returns, or it raises.
BaseOutcomes == {"returns", "raises"}

\* Reading instance.name: the instance's own attribute, else the class's.
GetAttr(i, name) ==
  IF name \in DOMAIN attrs[i] THEN attrs[i][name]
  ELSE IF name \in DOMAIN classAttrs THEN classAttrs[name]
  ELSE NoAttr

Init ==
  /\ pc = [i \in Inst |-> "idle"]
  /\ stmt = [i \in Inst |-> 1]
  /\ call = [i \in Inst |-> NoArgs]
  /\ params = [i \in Inst |-> NoArgs]
  /\ kwargs = [i \in Inst |-> NoArgs]
  /\ attrs = [i \in Inst |-> NoArgs]
  /\ superCalls = [i \in Inst |-> <<>>]
  /\ raised = [i \in Inst |-> "none"]
  /\ classAttrs = YosoConfigClass

\* YosoConfig(**c), for one of the calls c of cs: the constructor is entered
\* and its parameters are bound.
Call(i, cs) ==
  /\ pc[i] = "idle"
  /\ \E c \in cs :
       /\ call' = [call EXCEPT ![i] = c]
       /\ params' = [params EXCEPT ![i] = BindParams(c)]
       /\ kwargs' = [kwargs EXCEPT ![i] = BindKwargs(c)]
  /\ pc' = [pc EXCEPT ![i] = "super"]
  /\ UNCHANGED <<stmt, attrs, superCalls, raised, classAttrs>>

\* Line 126: super().__init__(pad_token_id=..., bos_token_id=..., eos_token_id=..., **kwargs).
CallSuper(i) ==
  /\ pc[i] = "super"
  /\ superCalls' = [superCalls EXCEPT ![i] = Append(@, SuperKeywords(params[i], kwargs[i]))]
  /\ \/ /\ "returns" \in BaseOutcomes
        /\ pc' = [pc EXCEPT ![i] = "assign"]
        /\ UNCHANGED raised
     \/ /\ "raises" \in BaseOutcomes
        /\ pc' = [pc EXCEPT ![i] = "raised"]
        /\ raised' = [raised EXCEPT ![i] = "base"]
  /\ UNCHANGED <<stmt, call, params, kwargs, attrs, classAttrs>>

\* Assign with integers clamped at zero before they are stored.
AssignClamped(i) ==
  /\ pc[i] = "assign"
  /\ stmt[i] <= Len(Assignments)
  /\ LET a == Assignments[stmt[i]]
         v == params[i][a.param]
         w == IF "int" \in DOMAIN v /\ v.int < 0 THEN IntV(0) ELSE v
     IN attrs' = [attrs EXCEPT ![i] = SetItem(@, a.attr, w)]
  /\ stmt' = [stmt EXCEPT ![i] = @ + 1]
  /\ pc' = [pc EXCEPT ![i] = IF stmt[i] = Len(Assignments) THEN "done" ELSE "assign"]
  /\ UNCHANGED <<call, params, kwargs, superCalls, raised, classAttrs>>

\* Assign with position_embedding_type stored under model_type as well.
AssignTagged(i) ==
  /\ pc[i] = "assign"
  /\ stmt[i] <= Len(Assignments)
  /\ LET a == Assignments[stmt[i]]
         d == SetItem(attrs[i], a.attr, params[i][a.param])
     IN attrs' = [attrs EXCEPT ![i] =
                    IF a.param = "position_embedding_type"
                    THEN SetItem(d, "model_type", params[i][a.param]) ELSE d]
  /\ stmt' = [stmt EXCEPT ![i] = @ + 1]
  /\ pc' = [pc EXCEPT ![i] = IF stmt[i] = Len(Assignments) THEN "done" ELSE "assign"]
  /\ UNCHANGED <<call, params, kwargs, superCalls, raised, classAttrs>>

\* Assign with a check: a negative num_hidden_layers raises a ValueError.
AssignValidated(i) ==
  /\ pc[i] = "assign"
  /\ stmt[i] <= Len(Assignments)
  /\ LET a == Assignments[stmt[i]]
         v == params[i][a.param]
         bad == a.param = "num_hidden_layers" /\ "int" \in DOMAIN v /\ v.int < 0
     IN /\ attrs' = [attrs EXCEPT ![i] = IF bad THEN @ ELSE SetItem(@, a.attr, v)]
        /\ raised' = [raised EXCEPT ![i] = IF bad THEN "self" ELSE @]
        /\ pc' = [pc EXCEPT ![i] =
                    IF bad THEN "raised"
                    ELSE IF stmt[i] = Len(Assignments) THEN "done" ELSE "assign"]
  /\ stmt' = [stmt EXCEPT ![i] = @ + 1]
  /\ UNCHANGED <<call, params, kwargs, superCalls, classAttrs>>

\* Assign with the attribute set on the class (YosoConfig.<attr> = <param>),
\* not on the instance.
AssignShared(i) ==
  /\ pc[i] = "assign"
  /\ stmt[i] <= Len(Assignments)
  /\ LET a == Assignments[stmt[i]]
     IN classAttrs' = SetItem(classAttrs, a.attr, params[i][a.param])
  /\ stmt' = [stmt EXCEPT ![i] = @ + 1]
  /\ pc' = [pc EXCEPT ![i] = IF stmt[i] = Len(Assignments) THEN "done" ELSE "assign"]
  /\ UNCHANGED <<call, params, kwargs, attrs, superCalls, raised>>

\* One statement of lines 128-146: self.<attr> = <param>.  After the last one
\* the constructor returns.
Assign(i) ==
  /\ pc[i] = "assign"
  /\ stmt[i] <= Len(Assignments)
  /\ LET a == Assignments[stmt[i]]
     IN attrs' = [attrs EXCEPT ![i] = SetItem(@, a.attr, params[i][a.param])]
  /\ stmt' = [stmt EXCEPT ![i] = @ + 1]
  /\ pc' = [pc EXCEPT ![i] = IF stmt[i] = Len(Assignments) THEN "done" ELSE "assign"]
  /\ UNCHANGED <<call, params, kwargs, superCalls, raised, classAttrs>>

\* One instance, constructed with any call.
Next ==
  \/ Call(1, Calls)
  \/ CallSuper(1)
  \/ Assign(1)

Spec == Init /\ [][Next]_vars

\* Several instances, their constructors interleaved statement by statement.
NextConc ==
  \E i \in Inst :
    \/ Call(i, ConcCalls)
    \/ CallSuper(i)
    \/ Assign(i)

SpecConc == Init /\ [][NextConc]_vars

\* ------------------------------------------------------------------ claims
\* The value field F of a finished instance must hold: the argument passed
\* for it, or else the default of the signature.
Given(i, F) == IF F \in DOMAIN call[i] THEN call[i][F] ELSE Defaults[F]

C2_PassThrough ==
  \A i \in Inst :
    pc[i] = "done" =>
      /\ DOMAIN attrs[i] = ConfigFields
      /\ \A F \in ConfigFields \cap DOMAIN call[i] : attrs[i][F] = call[i][F]
      /\ \A F \in ConfigFields \cap DOMAIN call[i] :
           \A G \in ConfigFields \ DOMAIN call[i] :
             attrs[i][G] = call[i][F] => Defaults[G] = call[i][F]

\* A finished instance that was passed a negative integer and a string where
\* the documentation asks for an integer.
C2_Witness ==
  /\ pc[1] = "done"
  /\ DOMAIN call[1] = {"vocab_size", "intermediate_size"}
  /\ attrs[1]["vocab_size"] = IntV(-1)
  /\ attrs[1]["intermediate_size"] = StrV("big")

\* C3: overriding a subset S of the fields leaves every field not in S at its
\* default: no field's value depends on another field's argument.
C3_OthersAtDefault ==
  \A i \in Inst :
    pc[i] = "done" =>
      /\ \A F \in ConfigFields \ DOMAIN call[i] : attrs[i][F] = Defaults[F]
      /\ \A T \in TokenParams \ DOMAIN call[i] : superCalls[i][1][T] = Defaults[T]

\* YosoConfig(hidden_size=512, num_hash=32), finished.
C3_Witness ==
  /\ pc[1] = "done"
  /\ call[1] = ("hidden_size" :> IntV(512)) @@ ("num_hash" :> IntV(32))
  /\ attrs[1]["hidden_size"] = IntV(512)
  /\ attrs[1]["num_hash"] = IntV(32)

C5_BaseInitializerCall ==
  \A i \in Inst :
    /\ pc[i] \in {"idle", "super"} => superCalls[i] = <<>>
    /\ pc[i] \in {"assign", "done", "raised"} =>
         /\ Len(superCalls[i]) = 1
         /\ DOMAIN superCalls[i][1] = TokenParams \cup (DOMAIN call[i] \ ParamNames)
         /\ DOMAIN superCalls[i][1] \cap ConfigFields = {}
         /\ \A k \in DOMAIN superCalls[i][1] : superCalls[i][1][k] = Given(i, k)
    /\ pc[i] = "raised" <=> raised[i] = "base"
    /\ raised[i] \in {"none", "base"}

\* A finished construction that passed an extra keyword argument and a token id.
C5_Witness ==
  /\ pc[1] = "done"
  /\ DOMAIN call[1] = {"num_labels", "bos_token_id"}
  /\ Len(superCalls[1]) = 1

\* The values the claim lists as invalid: a negative num_hidden_layers, a
\* dropout probability of 1.5 or -0.5, a position_embedding_type outside the
\* documented set, a hidden_size (770) no multiple of num_attention_heads.
Invalid(F, v) ==
  \/ F = "num_hidden_layers" /\ v = IntV(-1)
  \/ F = "hidden_dropout_prob" /\ v = FloatV(15, -1)
  \/ F = "attention_probs_dropout_prob" /\ v = FloatV(-5, -1)
  \/ F = "position_embedding_type" /\ v = StrV("rotary")
  \/ F = "hidden_size" /\ v = IntV(770)
  \/ F = "num_attention_heads" /\ v = IntV(0)

\* C6: the constructor performs no validation: with any value, out of range
\* or not, construction reaches no error state at this layer (each statement
\* can run, and nothing is raised by the constructor itself) and the value is
\* stored as given.
C6_NoValidation ==
  \A i \in Inst :
    /\ raised[i] # "self"
    /\ pc[i] = "super" => ENABLED CallSuper(i)
    /\ pc[i] = "assign" => ENABLED Assign(i)
    /\ pc[i] \in {"assign", "done"} =>
         \A k \in 1..(stmt[i] - 1) :
           LET F == Assignments[k].param
           IN (F \in DOMAIN call[i] /\ Invalid(F, call[i][F])) =>
                (F \in DOMAIN attrs[i] /\ attrs[i][F] = call[i][F])

\* A finished instance holding two of the invalid values.
C6_Witness ==
  /\ pc[1] = "done"
  /\ raised[1] = "none"
  /\ attrs[1]["num_hidden_layers"] = IntV(-1)
  /\ attrs[1]["hidden_dropout_prob"] = FloatV(15, -1)

\* C7: when use_fast_hash is not passed, the instance has use_fast_hash ==
\* False, as the class documentation states.
C7_UseFastHashDocumented ==
  \A i \in Inst :
    (pc[i] = "done" /\ "use_fast_hash" \notin DOMAIN call[i]) =>
      attrs[i]["use_fast_hash"] = DocDefaults["use_fast_hash"]

\* C8: when max_position_embeddings is not passed, the instance has
\* max_position_embeddings == 512, as the class documentation states.
C8_MaxPositionDocumented ==
  \A i \in Inst :
    (pc[i] = "done" /\ "max_position_embeddings" \notin DOMAIN call[i]) =>
      attrs[i]["max_position_embeddings"] = DocDefaults["max_position_embeddings"]

\* C9: when type_vocab_size is not passed, the instance has type_vocab_size ==
\* 2, as the class documentation states.
C9_TypeVocabDocumented ==
  \A i \in Inst :
    (pc[i] = "done" /\ "type_vocab_size" \notin DOMAIN call[i]) =>
      attrs[i]["type_vocab_size"] = DocDefaults["type_vocab_size"]

\* Every finished instance reads, field by field, what its own call gave.
OwnValues ==
  \A i \in Inst :
    pc[i] = "done" => \A F \in ConfigFields : GetAttr(i, F) = Given(i, F)

\* A step changes the attributes of no instance but the one whose statement
\* ran, never those of a finished one, and never the class.
OwnWrites ==
  /\ classAttrs' = classAttrs
  /\ \A i \in Inst : attrs'[i] # attrs[i] => (pc[i] = "assign" /\ stmt'[i] = stmt[i] + 1)
  /\ Cardinality({i \in Inst : attrs'[i] # attrs[i]}) <= 1

\* C10: instances are independent: under any interleaving of constructions
\* with different arguments each finished instance holds exactly the values
\* of its own call, and a construction changes no field of another instance
\* and no class-level state.
C10_Independent == []OwnValues /\ [][OwnWrites]_vars

\* One instance finished while another, called with other arguments, is in
\* the middle of its assignments.
C10_Witness ==
  /\ pc[1] = "done"
  /\ pc[2] = "assign"
  /\ stmt[2] > 3
  /\ call[1] # call[2]
  /\ attrs[1]["hidden_size"] # params[2]["hidden_size"]

====
